---- MODULE Spec2Model ----
(***************************************************************************)
(* hypertrial: the weight allocator of the dynamic DCA strategy            *)
(* (core/strategies/dynamic_dca_100ma.py) and the cycle evaluator          *)
(* (core/spd.py), as state machines.                                       *)
(*                                                                         *)
(* Numbers.  A float is modelled by an exact rational <<n, d>> in lowest   *)
(* terms with d > 0, so that rounding is abstracted and "sums to 1" is an  *)
(* equality.  The IEEE specials a division by zero produces are kept:      *)
(* <<0,0>> is NaN, <<1,0>> is +inf and <<-1,0>> is -inf.                   *)
(*                                                                         *)
(* Dates.  A date is a day number; a calendar year has DaysPerYear days,   *)
(* so Year(d) = d \div DaysPerYear and date d + k*DaysPerYear is the same  *)
(* day of the year k years later (pd.DateOffset(years=k)).                 *)
(***************************************************************************)
EXTENDS Integers, Sequences, FiniteSets

\* ------------------------------------------------------------- bounds

\* days in a calendar year of the model
DaysPerYear == 2
\* the data's dates lie in 0..MaxDate
MaxDate == 20
\* the longest run of consecutive dates the allocator is given
MaxLen == 4
\* the most dates the evaluator's data holds
MaxDays == 2

\* ------------------------------------------------------------ numbers

Abs(x) == IF x < 0 THEN -x ELSE x

Sgn(x) == IF x < 0 THEN -1 ELSE IF x = 0 THEN 0 ELSE 1

RECURSIVE GCD(_, _)
GCD(a, b) == IF b = 0 THEN a ELSE GCD(b, a % b)

\* n/d with d > 0, in lowest terms
Norm(n, d) ==
    LET g == GCD(Abs(n), d)
    IN  <<(Abs(n) \div g) * Sgn(n), d \div g>>

NaN == <<0, 0>>

Inf(s) == <<s, 0>>

Whole(k) == <<k, 1>>

IsFinite(x) == x[2] > 0

IsNaN(x) == x = NaN

\* x < y; any comparison with NaN is false
FLt(x, y) ==
    /\ ~IsNaN(x)
    /\ ~IsNaN(y)
    /\ IF IsFinite(x) /\ IsFinite(y) THEN x[1] * y[2] < y[1] * x[2]
       ELSE IF IsFinite(x) THEN y[1] > 0
       ELSE IF IsFinite(y) THEN x[1] < 0
       ELSE x[1] < y[1]

\* x <= y; any comparison with NaN is false
FLe(x, y) == ~IsNaN(x) /\ ~IsNaN(y) /\ (x = y \/ FLt(x, y))

FNeg(x) == <<-x[1], x[2]>>

FAdd(x, y) ==
    IF IsNaN(x) \/ IsNaN(y) THEN NaN
    ELSE IF IsFinite(x) /\ IsFinite(y)
         THEN Norm(x[1] * y[2] + y[1] * x[2], x[2] * y[2])
    ELSE IF IsFinite(x) THEN y
    ELSE IF IsFinite(y) THEN x
    ELSE IF x = y THEN x ELSE NaN

FSub(x, y) == FAdd(x, FNeg(y))

FMul(x, y) ==
    IF IsNaN(x) \/ IsNaN(y) THEN NaN
    ELSE IF IsFinite(x) /\ IsFinite(y)
         THEN LET a == Norm(x[1], y[2])
                  b == Norm(y[1], x[2])
              IN  Norm(a[1] * b[1], a[2] * b[2])
    ELSE IF x[1] = 0 \/ y[1] = 0 THEN NaN
    ELSE Inf(Sgn(x[1]) * Sgn(y[1]))

\* numpy float division: x/0 is NaN for x = 0 and a signed infinity otherwise
FDiv(x, y) ==
    IF IsNaN(x) \/ IsNaN(y) THEN NaN
    ELSE IF IsFinite(x) /\ IsFinite(y)
         THEN IF y[1] = 0
              THEN (IF x[1] = 0 THEN NaN ELSE Inf(Sgn(x[1])))
              ELSE FMul(x, <<y[2] * Sgn(y[1]), Abs(y[1])>>)
    ELSE IF IsFinite(x) THEN Whole(0)
    ELSE IF IsFinite(y) THEN Inf(x[1] * (IF y[1] < 0 THEN -1 ELSE 1))
    ELSE NaN

\* ------------------------------------------------------ configuration
\* The names the allocator and the evaluator import from core.config, with
\* values scaled to the model's calendar and cycle sizes: a positive
\* sensitivity, a positive floor, a window shorter than a cycle.

\* first year of the backtest
StartYear == 1
\* last year of the backtest
EndYear == 9

\* BACKTEST_START: 1 January of StartYear
BACKTEST_START == StartYear * DaysPerYear

\* BACKTEST_END: 31 December of EndYear
BACKTEST_END == (EndYear + 1) * DaysPerYear - 1

\* boost sensitivity
ALPHA == <<5, 4>>

\* number of trailing days of a cycle a boost is funded from
REBALANCE_WINDOW == 2

\* floor of a reduced weight
MIN_WEIGHT == <<1, 20>>

\* the 4 of pd.DateOffset(years=4) and of (dt.year - start_year) // 4
CycleYears == 4

\* -------------------------------------------------------------- dates

Year(d) == d \div DaysPerYear

Min(S) == CHOOSE x \in S : \A y \in S : x <= y

Max(S) == CHOOSE x \in S : \A y \in S : y <= x

\* df.loc[BACKTEST_START:BACKTEST_END].index
Backtest(dates) == {d \in dates : BACKTEST_START <= d /\ d <= BACKTEST_END}

\* the dates of S in increasing order, positions 0..|S|-1
RECURSIVE Sorted(_)
Sorted(S) ==
    IF S = {} THEN <<>> ELSE <<Min(S)>> \o Sorted(S \ {Min(S)})

\* the sum of f over the dates S (Series.sum(), np.sum)
RECURSIVE SumOver(_, _)
SumOver(f, S) ==
    IF S = {} THEN Whole(0)
    ELSE LET d == Min(S) IN FAdd(f[d], SumOver(f, S \ {d}))

\* -------------------------------------------------------------- state

VARIABLES
    df,               \* the data: date -> [btc_close, ma100, std100]
    pc,               \* where the running call stands
    weights,          \* compute_weights: the series being filled, date -> weight
    pending,          \* compute_weights: the groupby labels still to come
    group,            \* compute_weights: the dates of the current cycle, in order
    temp_weights,     \* compute_weights: the current cycle's array, 0..N-1 -> weight
    i,                \* compute_weights: the day the scan stands at
    strategy_active,  \* compute_weights: the flag a rejection clears
    step,             \* history: what the last step of the scan did
    reduced,          \* history: the dates a committed redistribution reduced
    rejected,         \* history: the dates whose boost was rejected
    full_weights,     \* compute_cycle_spd: the strategy's series after fillna/clip
    current,          \* compute_cycle_spd: start of the cycle being formed
    returned,         \* compute_cycle_spd: the series the strategy returned
    rows,             \* compute_cycle_spd: the result rows so far
    cycles,           \* history: the dates of each cycle the loop formed
    metrics,          \* backtest_dynamic_dca: the aggregated metrics
    result            \* how the call ended

vars == <<df, pc, weights, pending, group, temp_weights, i, strategy_active,
          step, reduced, rejected, full_weights, current, returned, rows, cycles,
          metrics, result>>

allocVars == <<weights, pending, group, temp_weights, i, strategy_active,
               step, reduced, rejected>>

evalVars == <<full_weights, current, returned, rows, cycles, metrics, result>>

\* --------------------------------------------------------------- data

\* rows of the data: btc_close and its rolling mean and deviation.  The
\* deviation of a first observation is NaN (rolling(...).std() of one value).
Features ==
    { [btc_close |-> Whole(4), ma100 |-> Whole(4), std100 |-> Whole(1)],
      [btc_close |-> Whole(3), ma100 |-> Whole(4), std100 |-> Whole(0)],
      [btc_close |-> Whole(3), ma100 |-> Whole(4), std100 |-> NaN],
      [btc_close |-> Whole(3), ma100 |-> Whole(4), std100 |-> Whole(2)],
      [btc_close |-> Whole(1), ma100 |-> Whole(4), std100 |-> Whole(1)] }

\* runs of at most MaxLen consecutive dates
Runs == {{}} \cup { lo .. hi : lo \in 0 .. MaxDate, hi \in 0 .. MaxDate }

AllocData ==
    UNION { [S -> Features] : S \in { R \in Runs : Cardinality(R) <= MaxLen } }

\* ------------------------------------------- compute_weights: helpers

index == Backtest(DOMAIN df)

start_year == Year(BACKTEST_START)

\* lambda dt: (dt.year - start_year) // 4
cycle_label(dt) == (Year(dt) - start_year) \div CycleYears

GroupOf(label) == Sorted({d \in index : cycle_label(d) = label})

N == Len(group)

\* the date of day k of the current cycle (group.iloc[k])
DayDate(k) == group[k + 1]

Day(k) == df[DayDate(k)]

\* base_weight = 1.0 / N
base_weight(n) == FDiv(Whole(1), Whole(n))

RECURSIVE SumUpTo(_, _)
SumUpTo(f, k) == IF k < 0 THEN Whole(0) ELSE FAdd(f[k], SumUpTo(f, k - 1))

\* price < ma100 and std100 > 0
Qualifies(k) ==
    /\ FLt(Day(k).btc_close, Day(k).ma100)
    /\ FLt(Whole(0), Day(k).std100)

z(k) == FDiv(FSub(Day(k).ma100, Day(k).btc_close), Day(k).std100)

boost_multiplier(k) == FAdd(Whole(1), FMul(ALPHA, z(k)))

\* variant: the boost starts from the uniform weight, not the current one
current_weight_uniform(k) == base_weight(N)

\* current_weight = temp_weights[i]
current_weight(k) == temp_weights[k]

boosted_weight(k) == FMul(current_weight(k), boost_multiplier(k))

excess(k) == FSub(boosted_weight(k), current_weight(k))

\* variant: the window may start at day i itself
start_redistribution_from_i(k) ==
    IF N - REBALANCE_WINDOW > k THEN N - REBALANCE_WINDOW ELSE k

\* start_redistribution = max(N - REBALANCE_WINDOW, i + 1)
start_redistribution(k) ==
    IF N - REBALANCE_WINDOW > k + 1 THEN N - REBALANCE_WINDOW ELSE k + 1

redistribution_idx(k) == start_redistribution(k) .. (N - 1)

\* variant: the excess is divided by the configured window size R
reduction_by_R(k) == FDiv(excess(k), Whole(REBALANCE_WINDOW))

\* reduction = excess / len(redistribution_idx)
reduction(k) == FDiv(excess(k), Whole(Cardinality(redistribution_idx(k))))

projected(k) ==
    [j \in redistribution_idx(k) |-> FSub(temp_weights[j], reduction(k))]

\* variant: the floor is tested on the weights before the reduction
FloorOk_unreduced(k) ==
    \A j \in redistribution_idx(k) : FLe(MIN_WEIGHT, temp_weights[j])

\* np.all(projected >= MIN_WEIGHT)
FloorOk(k) == \A j \in redistribution_idx(k) : FLe(MIN_WEIGHT, projected(k)[j])

\* ------------------------------------------- compute_weights: actions

Scanning == pc = "scan" /\ i < N /\ strategy_active

\* variant: the flag is set once, before the loop over the cycles
StartCycle_keeps_flag ==
    /\ pc = "groups"
    /\ pending # {}
    /\ LET g == GroupOf(Min(pending))
       IN  /\ group' = g
           /\ temp_weights' = [k \in 0 .. Len(g) - 1 |-> base_weight(Len(g))]
    /\ pending' = pending \ {Min(pending)}
    /\ i' = 0
    /\ step' = "start"
    /\ pc' = "scan"
    /\ UNCHANGED <<df, weights, strategy_active, reduced, rejected, evalVars>>

\* for cycle, group in df.groupby(cycle_labels): the next group starts
StartCycle ==
    /\ pc = "groups"
    /\ pending # {}
    /\ LET g == GroupOf(Min(pending))
       IN  /\ group' = g
           /\ temp_weights' = [k \in 0 .. Len(g) - 1 |-> base_weight(Len(g))]
    /\ pending' = pending \ {Min(pending)}
    /\ strategy_active' = TRUE
    /\ i' = 0
    /\ step' = "start"
    /\ pc' = "scan"
    /\ UNCHANGED <<df, weights, reduced, rejected, evalVars>>

\* day i does not qualify: price >= ma100 or std100 not > 0
NoBoost ==
    /\ Scanning
    /\ ~Qualifies(i)
    /\ i' = i + 1
    /\ step' = "plain"
    /\ UNCHANGED <<df, pc, weights, pending, group, temp_weights,
                   strategy_active, reduced, rejected, evalVars>>

\* if start_redistribution >= N: continue
SkipBoost ==
    /\ Scanning
    /\ Qualifies(i)
    /\ start_redistribution(i) >= N
    /\ i' = i + 1
    /\ step' = "skip"
    /\ UNCHANGED <<df, pc, weights, pending, group, temp_weights,
                   strategy_active, reduced, rejected, evalVars>>

\* the floor holds: the boost and the reductions are written
CommitBoost ==
    /\ Scanning
    /\ Qualifies(i)
    /\ start_redistribution(i) < N
    /\ FloorOk(i)
    /\ temp_weights' =
          [k \in 0 .. N - 1 |->
              IF k = i THEN boosted_weight(i)
              ELSE IF k \in redistribution_idx(i)
                   THEN FSub(temp_weights[k], reduction(i))
              ELSE temp_weights[k]]
    /\ reduced' = reduced \cup {DayDate(k) : k \in redistribution_idx(i)}
    /\ rejected' = rejected
    /\ i' = i + 1
    /\ step' = "commit"
    /\ UNCHANGED <<df, pc, weights, pending, group, strategy_active, evalVars>>

\* variant: a rejection skips this boost only and the scan goes on
RejectBoost_no_halt ==
    /\ Scanning
    /\ Qualifies(i)
    /\ start_redistribution(i) < N
    /\ ~FloorOk(i)
    /\ i' = i + 1
    /\ step' = "reject"
    /\ rejected' = rejected \cup {DayDate(i)}
    /\ UNCHANGED <<df, pc, weights, pending, group, temp_weights, reduced,
                   strategy_active, evalVars>>

\* the floor fails: strategy_active = False
RejectBoost ==
    /\ Scanning
    /\ Qualifies(i)
    /\ start_redistribution(i) < N
    /\ ~FloorOk(i)
    /\ strategy_active' = FALSE
    /\ i' = i + 1
    /\ step' = "reject"
    /\ rejected' = rejected \cup {DayDate(i)}
    /\ UNCHANGED <<df, pc, weights, pending, group, temp_weights, reduced,
                   evalVars>>

\* the scan of the cycle ends (range exhausted, or the break of a cleared
\* flag): weights.loc[group.index] = temp_weights
EndCycle ==
    /\ pc = "scan"
    /\ (i >= N \/ ~strategy_active)
    /\ weights' = [d \in DOMAIN weights |->
                      IF \E k \in 0 .. N - 1 : DayDate(k) = d
                      THEN temp_weights[CHOOSE k \in 0 .. N - 1 : DayDate(k) = d]
                      ELSE weights[d]]
    /\ step' = "emit"
    /\ pc' = "groups"
    /\ UNCHANGED <<df, pending, group, temp_weights, i, strategy_active,
                   reduced, rejected, evalVars>>

\* return weights
ReturnWeights ==
    /\ pc = "groups"
    /\ pending = {}
    /\ pc' = "done"
    /\ step' = "return"
    /\ UNCHANGED <<df, weights, pending, group, temp_weights, i,
                   strategy_active, reduced, rejected, evalVars>>

\* compute_weights(df) up to the groupby: the slice, the NaN-filled series,
\* the labels
Init ==
    /\ df \in AllocData
    /\ pc = "groups"
    /\ weights = [d \in index |-> NaN]
    /\ pending = {cycle_label(d) : d \in index}
    /\ group = <<>>
    /\ temp_weights = <<>>
    /\ i = 0
    /\ strategy_active = TRUE
    /\ step = "init"
    /\ reduced = {}
    /\ rejected = {}
    /\ full_weights = <<>>
    /\ current = <<>>
    /\ returned = <<>>
    /\ rows = <<>>
    /\ cycles = <<>>
    /\ metrics = <<>>
    /\ result = "none"

Next ==
    \/ StartCycle
    \/ NoBoost
    \/ SkipBoost
    \/ CommitBoost
    \/ RejectBoost
    \/ EndCycle
    \/ ReturnWeights

Spec == Init /\ [][Next]_vars

\* ------------------------------------------- compute_weights: claims

GroupDates == {group[k] : k \in 1 .. Len(group)}

\* the labels whose cycle has been written to the series
EmittedLabels ==
    {l \in {cycle_label(d) : d \in index} \ pending :
        pc = "scan" => \E d \in index \ GroupDates : cycle_label(d) = l}

EmittedDates == {d \in index : cycle_label(d) \in EmittedLabels}

\* C1: the weights of a cycle sum to 1 after every step of its scan (a
\* commit, a skip, a rejection, a day that does not qualify) and in the
\* emitted series.
C1_SumIsOne ==
    /\ pc = "scan" => SumUpTo(temp_weights, N - 1) = Whole(1)
    /\ \A l \in EmittedLabels :
          SumOver(weights, {d \in index : cycle_label(d) = l}) = Whole(1)

\* a cycle whose scan committed a boost and then rejected one
C1_Witness ==
    /\ pc = "scan"
    /\ step = "reject"
    /\ reduced \cap GroupDates # {}

\* C2: no weight is negative, in the running array and in the emitted
\* series, and a day a committed redistribution reduced holds at least
\* MIN_WEIGHT, also when it was reduced again or boosted afterwards.
C2_FloorKept ==
    /\ pc = "scan" =>
          \A k \in 0 .. N - 1 :
             /\ FLe(Whole(0), temp_weights[k])
             /\ DayDate(k) \in reduced => FLe(MIN_WEIGHT, temp_weights[k])
    /\ \A d \in EmittedDates :
          /\ FLe(Whole(0), weights[d])
          /\ d \in reduced => FLe(MIN_WEIGHT, weights[d])

\* an emitted day that was reduced and boosted afterwards, and another that
\* was reduced close to the floor
C2_Witness ==
    /\ pc = "done"
    /\ \E d \in reduced : \E e \in reduced :
          /\ cycle_label(d) = cycle_label(e)
          /\ FLt(weights[e], weights[d])
          /\ FLt(weights[e], FMul(Whole(2), MIN_WEIGHT))

\* C3: once a boost is rejected, the next step of the call ends the scan of
\* the cycle and emits the array as it stood at the rejection, and an
\* emitted weight never changes again.
C3_RejectionHalts ==
    [][ /\ (pc = "scan" /\ step = "reject") =>
              /\ pc' = "groups"
              /\ \A k \in 0 .. N - 1 : weights'[DayDate(k)] = temp_weights[k]
        /\ \A d \in EmittedDates : weights'[d] = weights[d] ]_vars

\* a rejection followed by a day that qualifies and whose own redistribution
\* would satisfy the floor
C3_Witness ==
    /\ pc = "scan"
    /\ step = "reject"
    /\ \E j \in i .. N - 1 :
          /\ Qualifies(j)
          /\ start_redistribution(j) < N
          /\ FloorOk(j)

\* C10: when day i qualifies, its window is not empty and every reduced
\* window weight is at least MIN_WEIGHT, the step sets day i to its current
\* weight times (1 + alpha*z), takes excess / window_size from every window
\* day and leaves every other day unchanged.
C10_CommitExact ==
    [][ LET day == df[group[i + 1]]
            zs == FDiv(FSub(day.ma100, day.btc_close), day.std100)
            W == {k \in 0 .. N - 1 : k > i /\ k >= N - REBALANCE_WINDOW}
            boosted == FMul(temp_weights[i], FAdd(Whole(1), FMul(ALPHA, zs)))
            each == FDiv(FSub(boosted, temp_weights[i]), Whole(Cardinality(W)))
        IN  ( /\ pc = "scan" /\ i < N /\ strategy_active
              /\ FLt(day.btc_close, day.ma100)
              /\ FLt(Whole(0), day.std100)
              /\ W # {}
              /\ \A k \in W : FLe(MIN_WEIGHT, FSub(temp_weights[k], each)) )
            => /\ temp_weights'[i] = boosted
               /\ \A k \in W : temp_weights'[k] = FSub(temp_weights[k], each)
               /\ \A k \in (0 .. N - 1) \ (W \cup {i}) :
                     temp_weights'[k] = temp_weights[k] ]_vars

\* a committed boost of a day that an earlier boost had reduced
C10_Witness ==
    /\ pc = "scan"
    /\ step = "commit"
    /\ i >= 1
    /\ DayDate(i - 1) \in reduced

\* C11: a rejection ends boosting for its own cycle only.  Every cycle
\* starts its scan with uniform weights 1/N and boosting active; a day that
\* qualifies and satisfies the floor, in a cycle without a rejection of its
\* own, is boosted whatever was rejected in earlier cycles; and the call
\* returns a weight for every date of the window.
C11_RejectionIsPerCycle ==
    [][ /\ (pc = "groups" /\ pc' = "scan") =>
              /\ strategy_active'
              /\ \A k \in 0 .. Len(group') - 1 :
                    temp_weights'[k] = FDiv(Whole(1), Whole(Len(group')))
        /\ LET day == df[group[i + 1]]
               zs == FDiv(FSub(day.ma100, day.btc_close), day.std100)
               W == {k \in 0 .. N - 1 : k > i /\ k >= N - REBALANCE_WINDOW}
               boosted ==
                   FMul(temp_weights[i], FAdd(Whole(1), FMul(ALPHA, zs)))
               each ==
                   FDiv(FSub(boosted, temp_weights[i]), Whole(Cardinality(W)))
           IN  ( /\ pc = "scan" /\ i < N
                 /\ rejected \cap GroupDates = {}
                 /\ FLt(day.btc_close, day.ma100)
                 /\ FLt(Whole(0), day.std100)
                 /\ W # {}
                 /\ \A k \in W : FLe(MIN_WEIGHT, FSub(temp_weights[k], each)) )
               => /\ FLt(temp_weights[i], temp_weights'[i])
                  /\ strategy_active'
        /\ pc' = "done" => \A d \in index : IsFinite(weights'[d]) ]_vars

\* a boost committed in a cycle that follows a cycle with a rejection
C11_Witness ==
    /\ pc = "scan"
    /\ step = "commit"
    /\ rejected # {}
    /\ rejected \cap GroupDates = {}

\* C12: the redistribution window of a qualifying day i is the days of
\* [max(N - R, i + 1), N - 1]: a committed boost reduces exactly those days.
\* The window is empty exactly when i is the last day of the cycle, and then
\* the boost is skipped: no weight changes and boosting stays active.  A
\* cycle of one day emits the weight 1.
C12_WindowAndSkip ==
    [][ /\ LET day == df[group[i + 1]]
               lo == IF N - REBALANCE_WINDOW > i + 1
                     THEN N - REBALANCE_WINDOW ELSE i + 1
               W == {k \in 0 .. N - 1 : lo <= k}
           IN  ( /\ pc = "scan" /\ i < N /\ strategy_active
                 /\ FLt(day.btc_close, day.ma100)
                 /\ FLt(Whole(0), day.std100) )
               => /\ W = {} <=> i = N - 1
                  /\ W = {} =>
                        /\ temp_weights' = temp_weights
                        /\ strategy_active'
                        /\ pc' = "scan"
                  /\ temp_weights' # temp_weights =>
                        \A k \in (0 .. N - 1) \ {i} :
                           FLt(temp_weights'[k], temp_weights[k]) <=> k \in W
        /\ (pc = "scan" /\ pc' = "groups" /\ N = 1) =>
              weights'[group[1]] = Whole(1) ]_vars

\* a boost skipped on the last day of a cycle of several days, after an
\* earlier boost of the cycle was committed
C12_Witness ==
    /\ pc = "scan"
    /\ step = "skip"
    /\ N >= 2
    /\ strategy_active
    /\ reduced \cap GroupDates # {}

\* ------------------------------------------ compute_cycle_spd: helpers

\* the 1e8 of (1 / price) * 1e8
SATS == 100000000

\* pd.DateOffset(years=4), in days of the model's calendar
cycle_length == CycleYears * DaysPerYear

\* inverted_prices = (1 / df_backtest['btc_close']) * 1e8
inverted_prices(d) == FMul(FDiv(Whole(1), df[d].btc_close), Whole(SATS))

\* .fillna(0).clip(lower=0) of one value
FillClip(w) ==
    IF IsNaN(w) THEN Whole(0)
    ELSE IF FLt(w, Whole(0)) THEN Whole(0)
    ELSE w

\* current <= df_backtest.index.max(); a comparison with NaT is false
LoopCond == current # <<>> /\ index # {} /\ current[1] <= Max(index)

cycle_end == current[1] + cycle_length - 1

end_date == IF cycle_end <= Max(index) THEN cycle_end ELSE Max(index)

\* df_backtest.loc[cycle_mask].index
cycle == {d \in index : current[1] <= d /\ d <= end_date}

FMax(S) == CHOOSE x \in S : \A y \in S : FLe(y, x)

FMin(S) == CHOOSE x \in S : \A y \in S : FLe(x, y)

\* one row of the result table, for the dates c of a cycle
Row(c) ==
    LET prices == {df[d].btc_close : d \in c}
        high == FMax(prices)
        low == FMin(prices)
        min_spd == FMul(FDiv(Whole(1), high), Whole(SATS))
        max_spd == FMul(FDiv(Whole(1), low), Whole(SATS))
        inv == [d \in c |-> inverted_prices(d)]
        uniform_spd == FDiv(SumOver(inv, c), Whole(Cardinality(c)))
        dynamic_spd == SumOver([d \in c |-> FMul(full_weights[d], inv[d])], c)
        spd_range == FSub(max_spd, min_spd)
        uniform_pct ==
            FMul(FDiv(FSub(uniform_spd, min_spd), spd_range), Whole(100))
        dynamic_pct ==
            FMul(FDiv(FSub(dynamic_spd, min_spd), spd_range), Whole(100))
    IN  [ cycle |-> <<Year(current[1]), Year(end_date)>>,
          min_spd |-> min_spd,
          max_spd |-> max_spd,
          uniform_spd |-> uniform_spd,
          dynamic_spd |-> dynamic_spd,
          uniform_pct |-> uniform_pct,
          dynamic_pct |-> dynamic_pct,
          excess_pct |-> FSub(dynamic_pct, uniform_pct) ]

\* the series a strategy may return: any part of the data's dates, each with
\* a weight that may be undefined or negative
WeightValues == {NaN, <<-1, 2>>, <<1, 2>>, Whole(1)}

Series == UNION { [S -> WeightValues] : S \in SUBSET (DOMAIN df) }

\* ------------------------------------------ backtest_dynamic_dca: helpers

Column(name) == [k \in 1 .. Len(rows) |-> rows[k][name]]

DropNa(s) == SelectSeq(s, LAMBDA x : ~IsNaN(x))

Range(s) == {s[k] : k \in 1 .. Len(s)}

RECURSIVE SumSeq(_)
SumSeq(s) == IF s = <<>> THEN Whole(0) ELSE FAdd(Head(s), SumSeq(Tail(s)))

RECURSIVE SortF(_)
SortF(s) ==
    IF s = <<>> THEN <<>>
    ELSE LET k == CHOOSE j \in 1 .. Len(s) : \A l \in 1 .. Len(s) : FLe(s[j], s[l])
         IN  <<s[k]>> \o SortF(SubSeq(s, 1, k - 1) \o SubSeq(s, k + 1, Len(s)))

\* Series.min(), .max(), .mean(), .median(): NaN is skipped, and the
\* statistic of nothing is NaN
SeriesMin(s) == IF DropNa(s) = <<>> THEN NaN ELSE FMin(Range(DropNa(s)))

SeriesMax(s) == IF DropNa(s) = <<>> THEN NaN ELSE FMax(Range(DropNa(s)))

SeriesMean(s) ==
    IF DropNa(s) = <<>> THEN NaN
    ELSE FDiv(SumSeq(DropNa(s)), Whole(Len(DropNa(s))))

SeriesMedian(s) ==
    LET t == SortF(DropNa(s))
        n == Len(t)
    IN  IF n = 0 THEN NaN
        ELSE IF n % 2 = 1 THEN t[(n + 1) \div 2]
        ELSE FDiv(FAdd(t[n \div 2], t[n \div 2 + 1]), Whole(2))

Stats(s) ==
    [ min |-> SeriesMin(s), max |-> SeriesMax(s),
      mean |-> SeriesMean(s), median |-> SeriesMedian(s) ]

\* ------------------------------------------ compute_cycle_spd: actions

\* full_weights = weight_fn(df).fillna(0).clip(lower=0)
ComputeFullWeights ==
    /\ pc = "weights"
    /\ \E w \in Series :
          /\ returned' = w
          /\ full_weights' = [d \in DOMAIN w |-> FillClip(w[d])]
    /\ pc' = "loop"
    /\ UNCHANGED <<df, allocVars, current, rows, cycles, metrics, result>>

\* the loop body when the slice is empty: break
BreakOnEmpty ==
    /\ pc = "loop"
    /\ LoopCond
    /\ cycle = {}
    /\ pc' = "return"
    /\ UNCHANGED <<df, allocVars, evalVars>>

\* the loop body when full_weights.loc[cycle.index] names a date the series
\* does not hold: KeyError (pandas 1.0 and later), which ends the call
MissingLabel ==
    /\ pc = "loop"
    /\ LoopCond
    /\ cycle # {}
    /\ ~(cycle \subseteq DOMAIN full_weights)
    /\ result' = "KeyError"
    /\ pc' = "done"
    /\ UNCHANGED <<df, allocVars, full_weights, current, returned, rows,
                   cycles, metrics>>

\* the loop body: one row is appended and current += cycle_length
AppendRow ==
    /\ pc = "loop"
    /\ LoopCond
    /\ cycle # {}
    /\ cycle \subseteq DOMAIN full_weights
    /\ rows' = Append(rows, Row(cycle))
    /\ cycles' = Append(cycles, cycle)
    /\ current' = <<current[1] + cycle_length>>
    /\ UNCHANGED <<df, pc, allocVars, full_weights, returned, metrics, result>>

\* the loop condition fails
LoopExit ==
    /\ pc = "loop"
    /\ ~LoopCond
    /\ pc' = "return"
    /\ UNCHANGED <<df, allocVars, evalVars>>

\* return pd.DataFrame(rows).set_index('cycle'): a frame built from no rows
\* has no column 'cycle' and set_index raises KeyError
ReturnTable ==
    /\ pc = "return"
    /\ IF rows = <<>>
       THEN result' = "KeyError" /\ pc' = "done"
       ELSE result' = "table" /\ pc' = "returned"
    /\ UNCHANGED <<df, allocVars, full_weights, current, returned, rows,
                   cycles, metrics>>

\* backtest_dynamic_dca after compute_cycle_spd returned: the metrics
Summarize ==
    /\ pc = "returned"
    /\ metrics' = [ dynamic_spd |-> Stats(Column("dynamic_spd")),
                    dynamic_pct |-> Stats(Column("dynamic_pct")) ]
    /\ result' = "metrics"
    /\ pc' = "done"
    /\ UNCHANGED <<df, allocVars, full_weights, current, returned, rows, cycles>>

\* the rows the evaluator's data is made of
EvalRows == {f \in Features : f.std100 = Whole(1)}

RECURSIVE DateSets(_)
DateSets(n) ==
    IF n = 0 THEN {{}}
    ELSE DateSets(n - 1) \cup
         {S \cup {d} : S \in DateSets(n - 1), d \in 0 .. MaxDate}

EvalData == UNION { [S -> EvalRows] : S \in DateSets(MaxDays) }

\* backtest_dynamic_dca(df) up to the call of the strategy
InitEval ==
    /\ df \in EvalData
    /\ pc = "weights"
    /\ current = IF index = {} THEN <<>> ELSE <<Min(index)>>
    /\ rows = <<>>
    /\ cycles = <<>>
    /\ returned = <<>>
    /\ full_weights = <<>>
    /\ metrics = <<>>
    /\ result = "none"
    /\ weights = <<>>
    /\ pending = {}
    /\ group = <<>>
    /\ temp_weights = <<>>
    /\ i = 0
    /\ strategy_active = TRUE
    /\ step = "init"
    /\ reduced = {}
    /\ rejected = {}

NextEval ==
    \/ ComputeFullWeights
    \/ BreakOnEmpty
    \/ MissingLabel
    \/ AppendRow
    \/ LoopExit
    \/ ReturnTable
    \/ Summarize

SpecEval == InitEval /\ [][NextEval]_vars

\* ------------------------------------------ compute_cycle_spd: claims

\* C4: the cycles the loop forms partition the window: every date of the
\* window lies in exactly one cycle.
C4_Partition ==
    pc = "return" =>
       \A d \in index :
          Cardinality({k \in 1 .. Len(cycles) : d \in cycles[k]}) = 1

\* the weights the row of cycle c was computed from are non-negative and
\* sum to 1
ValidWeights(c) ==
    /\ \A d \in c : FLe(Whole(0), full_weights[d])
    /\ SumOver(full_weights, c) = Whole(1)

InUnit(x, lo, hi) == FLe(lo, x) /\ FLe(x, hi)

\* C5: in every row whose weights are valid, uniform_spd and dynamic_spd
\* lie between min_spd and max_spd, and uniform_pct and dynamic_pct lie in
\* [0, 100].
C5_Bounded ==
    \A k \in 1 .. Len(rows) :
       ValidWeights(cycles[k]) =>
          /\ InUnit(rows[k].uniform_spd, rows[k].min_spd, rows[k].max_spd)
          /\ InUnit(rows[k].dynamic_spd, rows[k].min_spd, rows[k].max_spd)
          /\ InUnit(rows[k].uniform_pct, Whole(0), Whole(100))
          /\ InUnit(rows[k].dynamic_pct, Whole(0), Whole(100))

\* high == low
Degenerate(c) == \A d \in c : \A e \in c : df[d].btc_close = df[e].btc_close

\* C6: a cycle with high == low gets no row carrying NaN or an infinity in
\* uniform_pct, dynamic_pct or excess_pct, and the call that met one ends
\* in a degenerate-cycle failure.
C6_DegenerateFails ==
    /\ \A k \in 1 .. Len(rows) :
          Degenerate(cycles[k]) =>
             /\ IsFinite(rows[k].uniform_pct)
             /\ IsFinite(rows[k].dynamic_pct)
             /\ IsFinite(rows[k].excess_pct)
    /\ (pc = "done" /\ \E k \in 1 .. Len(cycles) : Degenerate(cycles[k])) =>
          result = "DegenerateCycle"

\* C7: a window without dates (the only window whose loop forms no cycle)
\* ends the call in a no-data failure raised for the empty window; no empty
\* table is returned and no metrics are computed over zero cycles.
C7_NoData ==
    /\ (pc = "done" /\ index = {}) => result = "NoData"
    /\ result = "table" => rows # <<>>
    /\ result = "metrics" => rows # <<>>

\* the weight the claim gives date d: 0 when the returned series does not
\* cover d or holds a negative weight there
Effective(d) ==
    IF d \notin DOMAIN returned THEN Whole(0)
    ELSE IF IsNaN(returned[d]) THEN Whole(0)
    ELSE IF FLt(returned[d], Whole(0)) THEN Whole(0)
    ELSE returned[d]

\* C8: dynamic_spd is computed with weight 0 for a negative weight and for a
\* date the returned series does not cover, and neither case fails the
\* evaluation.
C8_MissingIsZero ==
    /\ \A k \in 1 .. Len(rows) :
          rows[k].dynamic_spd =
             SumOver([d \in cycles[k] |->
                         FMul(Effective(d), inverted_prices(d))], cycles[k])
    /\ (pc = "done" /\ index # {}) => result # "KeyError"

\* C9: every cycle the evaluator slices is one group of the allocator, with
\* the same dates.
C9_SameCycles ==
    \A k \in 1 .. Len(cycles) :
       \E l \in {cycle_label(d) : d \in index} :
          {d \in index : cycle_label(d) = l} = cycles[k]

====
